---- MODULE Spec2Model ----
(***************************************************************************)
(* The JSON importer of src/main.go (and its earlier build,                *)
(* src/unnamed/part_000): main resolves JSON_PATH to a list of files and   *)
(* hands each to processFile, which derives the collection name, reads and *)
(* parses the file, clears the collection and inserts the records.         *)
(*                                                                         *)
(* Strings are sequences of atoms.  A path is a sequence of the atoms      *)
(* ".", "/", "[" and name pieces ("json", "txt", "a", "b", "d", "u", "v"); *)
(* no two atoms share a first letter and "json" is the only atom holding   *)
(* the letters of "json", so suffix tests, splitting and ordering on atoms *)
(* agree with the same operations on bytes.  A file's content is a         *)
(* sequence of tokens: "sp" (space, tab, CR), "nl" (newline), "[", "]",    *)
(* ",", the object texts "A" and "B", "L" (an object text longer than the  *)
(* scanner's 64 KiB line buffer) and "N" (a JSON value that is no object). *)
(***************************************************************************)
EXTENDS Integers, Sequences, FiniteSets, TLC

VARIABLES
    build,      \* which program runs: "extjson" (main.go) or "json" (part_000)
    lenient,    \* whether the ExtJSON decoder ignores bytes after the value
    kind,       \* what JSON_PATH names: "missing", "file" or "dir"
    jsonPath,   \* os.Getenv("JSON_PATH")
    entries,    \* the names in the directory (kind = "dir")
    disk,       \* path -> content, what os.ReadFile returns on success
    db0,        \* the database before the run
    db,         \* collection name -> documents, in insertion order
    client,     \* the connection handle: "none", "open" or "closed"
    pc,         \* the position of main / processFile
    exitCode,   \* -1 while running, then the process's exit code
    files,      \* the resolved files, in processing order
    idx,        \* index in files of the file being processed
    attempts,   \* per resolved file, how often processFile was called on it
    coll,       \* processFile's coll
    data,       \* processFile's data
    docs,       \* processFile's docs
    err,        \* processFile's err: "nil" or the failure it logged last
    calls       \* the database calls issued so far, in order

vars == <<build, lenient, kind, jsonPath, entries, disk, db0, db, client, pc,
          exitCode, files, idx, attempts, coll, data, docs, err, calls>>

\* Bounds of the model.
MaxNameLen == 5
MaxLen == 5
MaxFiles == 2

Range(s) == {s[i] : i \in 1..Len(s)}

SeqsUpTo(S, n) == UNION {[1..k -> S] : k \in 0..n}

----------------------------------------------------------------------------
\* Strings (paths and names).

\* strings.HasSuffix
HasSuffix(s, suffix) ==
    /\ Len(s) >= Len(suffix)
    /\ SubSeq(s, Len(s) - Len(suffix) + 1, Len(s)) = suffix

\* strings.Split(s, sep) for a one-byte separator: always at least one part.
RECURSIVE Split(_, _)
Split(s, sep) ==
    IF sep \notin Range(s) THEN <<s>>
    ELSE LET i == CHOOSE k \in 1..Len(s) :
                      s[k] = sep /\ \A j \in 1..(k - 1) : s[j] # sep
         IN <<SubSeq(s, 1, i - 1)>> \o Split(SubSeq(s, i + 1, Len(s)), sep)

\* Strip trailing slashes (the first loop of filepath.Base).
RECURSIVE StripSlashes(_)
StripSlashes(p) ==
    IF p # <<>> /\ p[Len(p)] = "/" THEN StripSlashes(SubSeq(p, 1, Len(p) - 1))
    ELSE p

\* filepath.Base: the last element of the path.
Base(path) ==
    IF path = <<>> THEN <<".">>
    ELSE LET p == StripSlashes(path)
             last == IF "/" \in Range(p)
                     THEN CHOOSE k \in 1..Len(p) :
                              p[k] = "/" /\ \A j \in (k + 1)..Len(p) : p[j] # "/"
                     ELSE 0
         IN IF p = <<>> THEN <<"/">> ELSE SubSeq(p, last + 1, Len(p))

DotJson == <<".", "json">>

\* An extraction that takes the first dot-separated segment.
extractFirstSegment(filePath) ==
    LET name == Base(filePath)
        parts == Split(name, ".")
    IN IF ~HasSuffix(name, DotJson) THEN <<>>
       ELSE IF Len(parts) < 2 THEN <<>>
       ELSE parts[1]

extractCollectionName(filePath) ==
    LET name == Base(filePath)
        parts == Split(name, ".")
    IN IF ~HasSuffix(name, DotJson) THEN <<>>
       ELSE IF Len(parts) < 2 THEN <<>>
       ELSE parts[Len(parts) - 1]

----------------------------------------------------------------------------
\* File contents and the decoders.

IsSpace(t) == t \in {"sp", "nl"}

IsObject(t) == t \in {"A", "B", "L"}

IsValue(t) == IsObject(t) \/ t = "N"

RECURSIVE TrimLeft(_)
TrimLeft(s) == IF s # <<>> /\ IsSpace(s[1]) THEN TrimLeft(Tail(s)) ELSE s

RECURSIVE TrimRight(_)
TrimRight(s) ==
    IF s # <<>> /\ IsSpace(s[Len(s)]) THEN TrimRight(SubSeq(s, 1, Len(s) - 1))
    ELSE s

\* bytes.TrimSpace / strings.TrimSpace
TrimSpace(s) == TrimRight(TrimLeft(s))

\* The elements of a JSON array, read from just after its "[".  st is what
\* may come next: "first" (a value or "]"), "value", or "sep" ("," or "]").
\* Values are objects or "N"; whitespace may stand between tokens.
RECURSIVE ArrayBody(_, _, _)
ArrayBody(text, acc, st) ==
    LET s == TrimLeft(text)
        bad == [ok |-> FALSE, vals |-> <<>>, rest |-> <<>>]
    IN IF s = <<>> THEN bad
       ELSE IF s[1] = "]" /\ st \in {"first", "sep"}
            THEN [ok |-> TRUE, vals |-> acc, rest |-> Tail(s)]
       ELSE IF IsValue(s[1]) /\ st \in {"first", "value"}
            THEN ArrayBody(Tail(s), Append(acc, s[1]), "sep")
       ELSE IF s[1] = "," /\ st = "sep"
            THEN ArrayBody(Tail(s), acc, "value")
       ELSE bad

\* One JSON value at the start of the text: [ok, kind, vals, rest].
ReadValue(text) ==
    LET s == TrimLeft(text)
        bad == [ok |-> FALSE, kind |-> "none", vals |-> <<>>, rest |-> <<>>]
    IN IF s = <<>> THEN bad
       ELSE IF IsObject(s[1])
            THEN [ok |-> TRUE, kind |-> "object", vals |-> <<s[1]>>, rest |-> Tail(s)]
       ELSE IF s[1] = "N"
            THEN [ok |-> TRUE, kind |-> "scalar", vals |-> <<s[1]>>, rest |-> Tail(s)]
       ELSE IF s[1] = "["
            THEN LET b == ArrayBody(Tail(s), <<>>, "first")
                 IN IF b.ok
                    THEN [ok |-> TRUE, kind |-> "array", vals |-> b.vals, rest |-> b.rest]
                    ELSE bad
       ELSE bad

\* Whether the decoder accepts what follows the value it read.
TrailingOk(rest, ignoreTrailing) == ignoreTrailing \/ TrimLeft(rest) = <<>>

\* bson.UnmarshalExtJSON(text, false, &arr) with arr []bson.M: the text must
\* be an array whose elements are all objects.
UnmarshalExtJSONArray(text, ignoreTrailing) ==
    LET v == ReadValue(text)
    IN IF /\ v.ok
          /\ v.kind = "array"
          /\ \A i \in 1..Len(v.vals) : IsObject(v.vals[i])
          /\ TrailingOk(v.rest, ignoreTrailing)
       THEN [err |-> FALSE, vals |-> v.vals]
       ELSE [err |-> TRUE, vals |-> <<>>]

\* bson.UnmarshalExtJSON(line, false, &m) with m bson.M: the text must be
\* one object.
UnmarshalExtJSONObject(text, ignoreTrailing) ==
    LET v == ReadValue(text)
    IN IF v.ok /\ v.kind = "object" /\ TrailingOk(v.rest, ignoreTrailing)
       THEN [err |-> FALSE, val |-> v.vals[1]]
       ELSE [err |-> TRUE, val |-> "none"]

\* json.Unmarshal(data, &raw): exactly one JSON value, whitespace around it.
JsonUnmarshal(text) ==
    LET v == ReadValue(text)
    IN IF v.ok /\ TrimLeft(v.rest) = <<>>
       THEN [err |-> FALSE, kind |-> v.kind, vals |-> v.vals]
       ELSE [err |-> TRUE, kind |-> "none", vals |-> <<>>]

\* bufio.Scanner with ScanLines: the next line of the remaining input and
\* what remains after it.  A line that does not fit the buffer ends the scan
\* with ErrTooLong.
NextLine(rest) ==
    IF "nl" \in Range(rest)
    THEN LET i == CHOOSE k \in 1..Len(rest) :
                      rest[k] = "nl" /\ \A j \in 1..(k - 1) : rest[j] # "nl"
         IN [line |-> SubSeq(rest, 1, i - 1), after |-> SubSeq(rest, i + 1, Len(rest))]
    ELSE [line |-> rest, after |-> <<>>]

TooLong(line) == "L" \in Range(line)

\* The scanner loop of parseExtendedJSON (the NDJSON branch).
RECURSIVE scanLoop(_, _, _)
\* A scanner loop that hands back the lines decoded before the bad one.
RECURSIVE scanLoopPartial(_, _, _)
scanLoopPartial(rest, acc, ignoreTrailing) ==
    IF rest = <<>> THEN [docs |-> acc, err |-> "nil"]
    ELSE LET n == NextLine(rest)
             line == TrimSpace(n.line)
             m == UnmarshalExtJSONObject(line, ignoreTrailing)
         IN IF TooLong(n.line) THEN [docs |-> acc, err |-> "ErrTooLong"]
            ELSE IF line = <<>> THEN scanLoopPartial(n.after, acc, ignoreTrailing)
            ELSE IF m.err THEN [docs |-> acc, err |-> "line"]
            ELSE scanLoopPartial(n.after, Append(acc, m.val), ignoreTrailing)

\* A scanner loop that puts each record in front of the earlier ones.
RECURSIVE scanLoopReversed(_, _, _)
scanLoopReversed(rest, acc, ignoreTrailing) ==
    IF rest = <<>> THEN [docs |-> acc, err |-> "nil"]
    ELSE LET n == NextLine(rest)
             line == TrimSpace(n.line)
             m == UnmarshalExtJSONObject(line, ignoreTrailing)
         IN IF TooLong(n.line) THEN [docs |-> <<>>, err |-> "ErrTooLong"]
            ELSE IF line = <<>> THEN scanLoopReversed(n.after, acc, ignoreTrailing)
            ELSE IF m.err THEN [docs |-> <<>>, err |-> "line"]
            ELSE scanLoopReversed(n.after, <<m.val>> \o acc, ignoreTrailing)

scanLoop(rest, acc, ignoreTrailing) ==
    IF rest = <<>> THEN [docs |-> acc, err |-> "nil"]
    ELSE LET n == NextLine(rest)
             line == TrimSpace(n.line)
             m == UnmarshalExtJSONObject(line, ignoreTrailing)
         IN IF TooLong(n.line) THEN [docs |-> <<>>, err |-> "ErrTooLong"]
            ELSE IF line = <<>> THEN scanLoop(n.after, acc, ignoreTrailing)
            ELSE IF m.err THEN [docs |-> <<>>, err |-> "line"]
            ELSE scanLoop(n.after, Append(acc, m.val), ignoreTrailing)

parseExtendedJSON(raw, ignoreTrailing) ==
    LET d == TrimSpace(raw)
        arr == UnmarshalExtJSONArray(d, ignoreTrailing)
    IN IF Len(d) = 0 THEN [docs |-> <<>>, err |-> "nil"]
       ELSE IF d[1] = "["
            THEN IF arr.err THEN [docs |-> <<>>, err |-> "array"]
                 ELSE [docs |-> arr.vals, err |-> "nil"]
       ELSE scanLoop(d, <<>>, ignoreTrailing)

\* The decoding step of part_000's processFile: json.Unmarshal and the type
\* switch on its result.
decodeJSON(raw) ==
    LET r == JsonUnmarshal(raw)
    IN IF r.err THEN [docs |-> <<>>, err |-> "json"]
       ELSE IF r.kind = "array" THEN [docs |-> r.vals, err |-> "nil"]
       ELSE IF r.kind = "object" THEN [docs |-> r.vals, err |-> "nil"]
       ELSE [docs |-> <<>>, err |-> "structure"]

\* What the build in use makes of a file's content.
parseFile(b, raw, ignoreTrailing) ==
    IF b = "extjson" THEN parseExtendedJSON(raw, ignoreTrailing) ELSE decodeJSON(raw)

----------------------------------------------------------------------------
\* The database (the driver's calls on one collection).

\* A collection that was never written holds nothing.
Contents(d, c) == IF c \in DOMAIN d THEN d[c] ELSE <<>>

SetContents(d, c, v) == [x \in DOMAIN d \cup {c} |-> IF x = c THEN v ELSE d[x]]

\* What a DeleteMany(ctx, bson.M{}) may leave of the documents old: nothing
\* when it succeeds; when it fails (network error, deadline) the server may
\* have removed none, some or all of them.
DeleteKeepsOnSuccess(old, ok) ==
    IF ok THEN {old}
    ELSE {SubSeq(old, k, Len(old)) : k \in 1..(Len(old) + 1)}

DeleteOutcomes(old, ok) ==
    IF ok THEN {<<>>}
    ELSE {SubSeq(old, k, Len(old)) : k \in 1..(Len(old) + 1)}

\* Whether InsertMany(ctx, ds) can succeed: the driver refuses an empty list
\* (ErrEmptySlice) and a value that is no document before it sends anything.
Insertable(ds) == Len(ds) > 0 /\ \A i \in 1..Len(ds) : IsObject(ds[i])

\* What InsertMany may add: all of ds when it succeeds; when it fails, a
\* prefix of ds (none when the driver refused the list).
InsertOutcomes(ds, ok) ==
    IF ok THEN {ds}
    ELSE IF ~Insertable(ds) THEN {<<>>}
    ELSE {SubSeq(ds, 1, k) : k \in 0..Len(ds)}

\* The record of one database call: the file it was issued for, whether it
\* succeeded and what the collection held when it returned.
Call(op, c, f, ds, ok, after) ==
    [op |-> op, coll |-> c, file |-> f, docs |-> ds, ok |-> ok, after |-> after]

----------------------------------------------------------------------------
\* The file system.

\* filepath.Join(dir, name)
Join(dir, name) == dir \o <<"/">> \o name

\* The byte order of the atoms (each stands for its first letter).
AtomRank(a) ==
    CASE a = "." -> 1 [] a = "/" -> 2 [] a = "[" -> 3 [] a = "a" -> 4
      [] a = "b" -> 5 [] a = "d" -> 6 [] a = "json" -> 7 [] a = "txt" -> 8
      [] a = "u" -> 9 [] a = "v" -> 10

\* s < t as strings.
RECURSIVE StrLess(_, _)
StrLess(s, t) ==
    IF t = <<>> THEN FALSE
    ELSE IF s = <<>> THEN TRUE
    ELSE IF s[1] = t[1] THEN StrLess(Tail(s), Tail(t))
    ELSE AtomRank(s[1]) < AtomRank(t[1])

RECURSIVE SetToSeq(_)
SetToSeq(S) ==
    IF S = {} THEN <<>>
    ELSE LET x == CHOOSE y \in S : TRUE IN <<x>> \o SetToSeq(S \ {x})

\* filepath.Glob(filepath.Join(dir, "*.json")): ErrBadPattern when the
\* pattern is malformed (a "[" in dir opens a class that never closes);
\* otherwise the names of dir that end in ".json", sorted, each joined to dir.
GlobFails(dir) == "[" \in Range(dir)

Glob(dir, names) ==
    LET hits == {n \in names : HasSuffix(n, DotJson)}
        sorted == SortSeq(SetToSeq(hits), StrLess)
    IN [i \in 1..Len(sorted) |-> Join(dir, sorted[i])]

----------------------------------------------------------------------------
\* The runs explored.

DirOk == <<"d">>
DirBadPattern == <<"d", "[">>

\* The names a directory may hold: a.u.json, b.u.json, v.json, .json, u.txt.
NamePool ==
    { <<"a", ".", "u", ".", "json">>, <<"b", ".", "u", ".", "json">>,
      <<"v", ".", "json">>, <<".", "json">>, <<"u", ".", "txt">> }

\* The contents a file of a directory may have: nothing, an array of two
\* objects, two objects on two lines, a good line followed by a bad one, an
\* empty array, and a lone value that is no object.
ContentPool ==
    { <<>>, <<"[", "A", ",", "B", "]">>, <<"B", "nl", "A">>, <<"A", "nl", "]">>,
      <<"[", "]">>, <<"N">> }

PathAtoms == {".", "/", "json", "u", "v"}

\* The paths that can name a regular file.
FilePaths == {p \in SeqsUpTo(PathAtoms, MaxNameLen) : p # <<>> /\ p[Len(p)] # "/"}

Tokens == {"sp", "nl", "[", "]", ",", "A", "B", "L", "N"}

AllContents == SeqsUpTo(Tokens, MaxLen)

CollU == <<"u">>
CollV == <<"v">>
CollZ == <<"z">>

EmptyDB == [c \in {} |-> <<>>]
FullDB == [c \in {CollU, CollV, CollZ} |-> IF c = CollU THEN <<"P", "Q">> ELSE <<"P">>]

\* The database as an earlier run that imported [A,B] into u and v left it.
ImportedDB == [c \in {CollU, CollV} |-> <<"A", "B">>]

\* The state as the process starts, given what is on disk and in the database.
Start(b, l, k, path, names, d, base) ==
    /\ build = b
    /\ lenient = l
    /\ kind = k
    /\ jsonPath = path
    /\ entries = names
    /\ disk = d
    /\ db0 = base
    /\ db = base
    /\ client = "none"
    /\ pc = "loadEnv"
    /\ exitCode = -1
    /\ files = <<>>
    /\ idx = 1
    /\ attempts = <<>>
    /\ coll = <<>>
    /\ data = <<>>
    /\ docs = <<>>
    /\ err = "nil"
    /\ calls = <<>>

\* JSON_PATH names a directory of at most MaxFiles entries.
InitDir ==
    \E b \in {"extjson", "json"}, base \in {EmptyDB, FullDB, ImportedDB} :
    \E names \in {S \in SUBSET NamePool : Cardinality(S) <= MaxFiles} :
    \E content \in [names -> ContentPool] :
        Start(b, FALSE, "dir", DirOk, names,
              [p \in {Join(DirOk, n) : n \in names} |->
                   content[SubSeq(p, Len(DirOk) + 2, Len(p))]],
              base)

\* JSON_PATH names one regular file.
InitFile ==
    \E b \in {"extjson", "json"}, path \in FilePaths :
    \E content \in {<<"A", "nl", "B">>, <<"sp", "nl">>} :
        Start(b, FALSE, "file", path, {}, [p \in {path} |-> content], FullDB)

\* JSON_PATH names nothing, or a directory whose name breaks the pattern.
InitFatal ==
    \/ Start("extjson", FALSE, "missing", DirOk, {}, EmptyDB, FullDB)
    \/ Start("extjson", FALSE, "dir", DirBadPattern, {<<"v", ".", "json">>},
             [p \in {Join(DirBadPattern, <<"v", ".", "json">>)} |-> <<"A">>], FullDB)

Init == InitDir \/ InitFile \/ InitFatal

----------------------------------------------------------------------------
\* main

\* log.Fatal / log.Fatalf: os.Exit(1); deferred calls do not run.
Fatal ==
    /\ pc' = "exited"
    /\ exitCode' = 1
    /\ UNCHANGED client

Frame == <<coll, data, docs, err>>
World == <<build, lenient, kind, jsonPath, entries, disk, db0>>

loadEnv ==
    /\ pc = "loadEnv"
    /\ \/ pc' = "connect" /\ UNCHANGED <<exitCode, client>>
       \/ Fatal
    /\ UNCHANGED <<World, db, files, idx, attempts, Frame, calls>>

Connect ==
    /\ pc = "connect"
    /\ \/ pc' = "stat" /\ client' = "open" /\ UNCHANGED exitCode
       \/ Fatal
    /\ UNCHANGED <<World, db, files, idx, attempts, Frame, calls>>

Stat ==
    /\ pc = "stat"
    /\ \/ /\ kind = "missing"
          /\ Fatal
          /\ UNCHANGED <<files, attempts>>
       \/ /\ kind = "dir"
          /\ pc' = "glob"
          /\ UNCHANGED <<exitCode, client, files, attempts>>
       \/ /\ kind = "file"
          /\ files' = <<jsonPath>>
          /\ attempts' = <<0>>
          /\ pc' = "loop"
          /\ UNCHANGED <<exitCode, client>>
    /\ UNCHANGED <<World, db, idx, Frame, calls>>

GlobDir ==
    /\ pc = "glob"
    /\ \/ /\ GlobFails(jsonPath)
          /\ Fatal
          /\ UNCHANGED <<files, attempts>>
       \/ /\ ~GlobFails(jsonPath)
          /\ files' = Glob(jsonPath, entries)
          /\ attempts' = [i \in 1..Len(files') |-> 0]
          /\ pc' = "loop"
          /\ UNCHANGED <<exitCode, client>>
    /\ UNCHANGED <<World, db, idx, Frame, calls>>

\* Falling off the end of main: the deferred client.Disconnect runs.
MainReturn ==
    /\ pc = "loop"
    /\ idx > Len(files)
    /\ client' = "closed"
    /\ pc' = "exited"
    /\ exitCode' = 0
    /\ UNCHANGED <<World, db, files, idx, attempts, Frame, calls>>

----------------------------------------------------------------------------
\* processFile(db, files[idx])

\* return: back in main's loop, at the next file.
Return ==
    /\ pc' = "loop"
    /\ idx' = idx + 1

ExtractName ==
    /\ pc = "loop"
    /\ idx <= Len(files)
    /\ attempts' = [attempts EXCEPT ![idx] = @ + 1]
    /\ coll' = extractCollectionName(files[idx])
    /\ data' = <<>>
    /\ docs' = <<>>
    /\ err' = "nil"
    /\ IF coll' = <<>> THEN Return ELSE pc' = "read" /\ UNCHANGED idx
    /\ UNCHANGED <<World, db, client, exitCode, files, calls>>

\* A processFile that treats an unreadable file as fatal.
ReadFileFatal ==
    /\ pc = "read"
    /\ \/ data' = disk[files[idx]] /\ pc' = "parse" /\ UNCHANGED <<idx, err, exitCode>>
       \/ err' = "read" /\ pc' = "exited" /\ exitCode' = 1 /\ UNCHANGED <<data, idx>>
    /\ UNCHANGED <<World, db, client, files, attempts, coll, docs, calls>>

ReadFile ==
    /\ pc = "read"
    /\ \/ data' = disk[files[idx]] /\ pc' = "parse" /\ UNCHANGED <<idx, err>>
       \/ err' = "read" /\ Return /\ UNCHANGED data
    /\ UNCHANGED <<World, db, client, exitCode, files, attempts, coll, docs, calls>>

\* A processFile that logs the parse failure but does not return.
ParseWithoutReturn ==
    /\ pc = "parse"
    /\ \E r \in {parseFile(build, data, lenient)} :
          /\ docs' = r.docs
          /\ err' = r.err
          /\ pc' = "delete"
    /\ UNCHANGED <<World, db, client, exitCode, files, idx, attempts, coll, data, calls>>

\* A processFile that forgets to clear the collection before it inserts.
ParseThenInsert ==
    /\ pc = "parse"
    /\ \E r \in {parseFile(build, data, lenient)} :
          /\ docs' = r.docs
          /\ err' = r.err
          /\ IF r.err # "nil" THEN Return ELSE pc' = "insert" /\ UNCHANGED idx
    /\ UNCHANGED <<World, db, client, exitCode, files, attempts, coll, data, calls>>

Parse ==
    /\ pc = "parse"
    /\ \E r \in {parseFile(build, data, lenient)} :
          /\ docs' = r.docs
          /\ err' = r.err
          /\ IF r.err # "nil" THEN Return ELSE pc' = "delete" /\ UNCHANGED idx
    /\ UNCHANGED <<World, db, client, exitCode, files, attempts, coll, data, calls>>

\* A processFile that logs the failed delete but does not return.
DeleteManyWithoutReturn ==
    /\ pc = "delete"
    /\ \E ok \in BOOLEAN :
       \E left \in DeleteOutcomes(Contents(db, coll), ok) :
          /\ db' = SetContents(db, coll, left)
          /\ calls' = Append(calls, Call("DeleteMany", coll, idx, <<>>, ok, left))
          /\ err' = IF ok THEN err ELSE "delete"
          /\ pc' = "insert"
    /\ UNCHANGED <<World, client, exitCode, files, idx, attempts, coll, data, docs>>

DeleteMany ==
    /\ pc = "delete"
    /\ \E ok \in BOOLEAN :
       \E left \in DeleteOutcomes(Contents(db, coll), ok) :
          /\ db' = SetContents(db, coll, left)
          /\ calls' = Append(calls, Call("DeleteMany", coll, idx, <<>>, ok, left))
          /\ IF ok THEN pc' = "insert" /\ UNCHANGED <<idx, err>>
                   ELSE err' = "delete" /\ Return
    /\ UNCHANGED <<World, client, exitCode, files, attempts, coll, data, docs>>

\* A processFile that skips the insert when there is nothing to insert.
InsertManyUnlessEmpty ==
    /\ pc = "insert"
    /\ \/ /\ docs = <<>>
          /\ Return
          /\ UNCHANGED <<db, calls, err>>
       \/ /\ docs # <<>>
          /\ \E ok \in {TRUE, FALSE} \ (IF Insertable(docs) THEN {} ELSE {TRUE}) :
             \E added \in InsertOutcomes(docs, ok) :
                /\ db' = SetContents(db, coll, Contents(db, coll) \o added)
                /\ calls' = Append(calls, Call("InsertMany", coll, idx, docs, ok,
                                               Contents(db, coll) \o added))
                /\ err' = IF ok THEN "nil" ELSE "insert"
                /\ Return
    /\ UNCHANGED <<World, client, exitCode, files, attempts, coll, data, docs>>

InsertMany ==
    /\ pc = "insert"
    /\ \E ok \in {TRUE, FALSE} \ (IF Insertable(docs) THEN {} ELSE {TRUE}) :
       \E added \in InsertOutcomes(docs, ok) :
          /\ db' = SetContents(db, coll, Contents(db, coll) \o added)
          /\ calls' = Append(calls, Call("InsertMany", coll, idx, docs, ok,
                                         Contents(db, coll) \o added))
          /\ err' = IF ok THEN "nil" ELSE "insert"
          /\ Return
    /\ UNCHANGED <<World, client, exitCode, files, attempts, coll, data, docs>>

main == loadEnv \/ Connect \/ Stat \/ GlobDir \/ MainReturn

processFile == ExtractName \/ ReadFile \/ Parse \/ DeleteMany \/ InsertMany

Next == main \/ processFile

Spec == Init /\ [][Next]_vars

\* The runs on which termination is checked: a directory whose files hold an
\* array or a bad line.  main is one sequential thread, so a step
\* that can be taken is taken: weak fairness of Next.
InitFair ==
    \E b \in {"extjson", "json"} :
    \E names \in {S \in SUBSET NamePool : Cardinality(S) <= MaxFiles} :
    \E content \in [names -> {<<"[", "A", ",", "B", "]">>, <<"A", "nl", "]">>}] :
        Start(b, FALSE, "dir", DirOk, names,
              [p \in {Join(DirOk, n) : n \in names} |->
                   content[SubSeq(p, Len(DirOk) + 2, Len(p))]],
              FullDB)

FairSpec == InitFair /\ [][Next]_vars /\ WF_vars(Next)

----------------------------------------------------------------------------
\* The parser on every content of at most MaxLen tokens: main.go's
\* processFile has just read data from v.json and is about to parse it.

ParsePath == <<"v", ".", "json">>

InitParse ==
    \E content \in AllContents, l \in BOOLEAN :
        /\ build = "extjson"
        /\ lenient = l
        /\ kind = "file"
        /\ jsonPath = ParsePath
        /\ entries = {}
        /\ disk = [p \in {ParsePath} |-> content]
        /\ db0 = FullDB
        /\ db = FullDB
        /\ client = "open"
        /\ pc = "parse"
        /\ exitCode = -1
        /\ files = <<ParsePath>>
        /\ idx = 1
        /\ attempts = <<1>>
        /\ coll = CollV
        /\ data = content
        /\ docs = <<>>
        /\ err = "nil"
        /\ calls = <<>>

SpecParse == InitParse /\ [][Parse]_vars

----------------------------------------------------------------------------
\* What the claims speak of.

\* What the build in use makes of resolved file i's content.
Parsed(i) == parseFile(build, disk[files[i]], lenient)

\* The calls issued while processing resolved file i.
CallsOf(i) == {k \in 1..Len(calls) : calls[k].file = i}

\* The file processFile was last called on (0 before the first call), and
\* whether that call has returned.
LastFile == IF pc \in {"read", "parse", "delete", "insert"} THEN idx ELSE idx - 1
Returned == pc \in {"loop", "exited"} /\ idx > 1

\* The collections the run can name.
Collections == DOMAIN db \cup DOMAIN db0 \cup {extractCollectionName(files[i]) : i \in 1..Len(files)}

----------------------------------------------------------------------------
\* C1: a file whose content fails to parse has no DeleteMany and no
\* InsertMany issued for it, and the step that finds the parse failure
\* leaves the database as it was and ends the processing of the file.
C1_ParseFailureTouchesNothing ==
    /\ [](\A k \in 1..Len(calls) : Parsed(calls[k].file).err = "nil")
    /\ [][(pc = "parse" /\ parseFile(build, data, lenient).err # "nil")
            => (db' = db /\ calls' = calls /\ pc' = "loop" /\ idx' = idx + 1)]_vars

\* A file whose parse failed has been passed over, and the collection it
\* names still holds its earlier documents.
C1_Witness ==
    /\ Returned
    /\ err \in {"line", "array", "ErrTooLong", "json", "structure"}
    /\ CallsOf(LastFile) = {}
    /\ Contents(db, coll) = Contents(db0, coll)
    /\ Contents(db0, coll) # <<>>

\* C2: every InsertMany directly follows a successful DeleteMany issued for
\* the same file on the same collection; a file whose DeleteMany failed has
\* no InsertMany.
C2_InsertOnlyAfterDelete ==
    /\ \A k \in 1..Len(calls) :
          calls[k].op = "InsertMany" =>
              /\ k > 1
              /\ calls[k - 1].op = "DeleteMany"
              /\ calls[k - 1].ok
              /\ calls[k - 1].file = calls[k].file
              /\ calls[k - 1].coll = calls[k].coll
    /\ \A k \in 1..Len(calls) :
          (calls[k].op = "DeleteMany" /\ ~calls[k].ok) =>
              \A j \in CallsOf(calls[k].file) : calls[j].op # "InsertMany"

\* One file's delete failed and a later file's insert went through.
C2_Witness ==
    \E j, k \in 1..Len(calls) :
        /\ j < k
        /\ calls[j].op = "DeleteMany" /\ ~calls[j].ok
        /\ calls[k].op = "InsertMany" /\ calls[k].ok

\* C3: when a file's read, parse, delete and insert all succeed, the
\* collection holds exactly the records parsed from the file when the insert
\* returns, whatever it held before; so two successful imports of the same
\* content into the same collection leave it in the same state.
C3_ReplaceSemantics ==
    /\ \A k \in 1..Len(calls) :
          (calls[k].op = "InsertMany" /\ calls[k].ok) =>
              /\ calls[k].after = Parsed(calls[k].file).docs
              /\ calls[k].coll = extractCollectionName(files[calls[k].file])
    /\ (Returned /\ err = "nil" /\ coll # <<>>) =>
          Contents(db, coll) = Parsed(LastFile).docs
    /\ \A j, k \in 1..Len(calls) :
          ( /\ calls[j].op = "InsertMany" /\ calls[j].ok
            /\ calls[k].op = "InsertMany" /\ calls[k].ok
            /\ calls[j].coll = calls[k].coll
            /\ disk[files[calls[j].file]] = disk[files[calls[k].file]] )
          => calls[j].after = calls[k].after
    /\ \A k \in 1..Len(calls) :
          ( /\ calls[k].op = "InsertMany" /\ calls[k].ok
            /\ Contents(db0, calls[k].coll) = Parsed(calls[k].file).docs
            /\ \A j \in 1..(k - 1) : calls[j].file = calls[k].file )
          => calls[k].after = Contents(db0, calls[k].coll)

\* A file was imported into a collection that held other documents.
C3_Witness ==
    /\ Returned /\ err = "nil" /\ coll # <<>>
    /\ Contents(db0, coll) # <<>>
    /\ Contents(db, coll) = Parsed(LastFile).docs
    /\ Contents(db, coll) # <<>>

\* C4: once the files are resolved, processFile is called on each of them
\* exactly once, in order, whatever fails on the way, and main then returns
\* normally (exit code 0).
C4_EveryFileAttemptedOnce ==
    /\ [](\A i \in 1..Len(attempts) : attempts[i] = (IF i <= LastFile THEN 1 ELSE 0))
    /\ [](pc = "exited" /\ Len(attempts) > 0 => exitCode = 0)
    /\ (pc = "loop") ~>
          (pc = "exited" /\ exitCode = 0 /\ \A i \in 1..Len(files) : attempts[i] = 1)

\* The run completed although the first of two files failed at the database.
C4_Witness ==
    /\ pc = "exited" /\ exitCode = 0
    /\ Len(files) >= 2
    /\ \A i \in 1..Len(files) : attempts[i] = 1
    /\ \E k \in CallsOf(1) : ~calls[k].ok
    /\ CallsOf(2) # {}

\* C5: whenever the process has ended after the connection was opened, the
\* handle has been closed.
C5_ClosedOnEveryExit == (pc = "exited" /\ client # "none") => client = "closed"

\* C6: the collection name derived for a file is the dot-separated segment
\* just before the final "json" segment of its file name, and is empty when
\* the file name does not end in ".json" or is exactly ".json"; a file with
\* an empty name is passed over without being read and without any database
\* call.
NoDot(s) == "." \notin Range(s)

\* name is <nm>.json or <anything>.<nm>.json
NamedBy(name, nm) ==
    LET n == Len(name)
        m == Len(nm)
    IN /\ NoDot(nm)
       /\ n >= m + 2
       /\ name[n] = "json" /\ name[n - 1] = "."
       /\ SubSeq(name, n - m - 1, n - 2) = nm
       /\ (n = m + 2 \/ name[n - m - 2] = ".")

EndsInDotJson(name) == Len(name) >= 2 /\ name[Len(name)] = "json" /\ name[Len(name) - 1] = "."

C6_NameExtraction ==
    LastFile >= 1 =>
        LET name == Base(files[LastFile])
        IN /\ \A i \in 1..(Len(name) + 1), j \in 0..Len(name) :
                 NamedBy(name, SubSeq(name, i, j)) => coll = SubSeq(name, i, j)
           /\ (~EndsInDotJson(name) \/ name = DotJson) => coll = <<>>
           /\ coll = <<>> =>
                 /\ pc \in {"loop", "exited"}
                 /\ data = <<>> /\ err = "nil"
                 /\ CallsOf(LastFile) = {}

\* A file named <x>.<name>.json was given the collection <name>.
C6_Witness ==
    /\ LastFile >= 1
    /\ Len(Base(files[LastFile])) = 5
    /\ Base(files[LastFile])[2] = "."
    /\ coll # <<>>
    /\ coll # <<Base(files[LastFile])[1]>>
    /\ NamedBy(Base(files[LastFile]), coll)

\* C7: when the content does not start (after whitespace) with "[" and one
\* of its non-blank lines cannot be decoded as an object, the parse returns
\* an error and no record.
TextLines(text) == Split(text, "nl")

NonBlank(line) == \E i \in 1..Len(line) : ~IsSpace(line[i])

Undecodable(line) == NonBlank(line) /\ UnmarshalExtJSONObject(line, lenient).err

FirstToken(text) ==
    IF \E i \in 1..Len(text) : ~IsSpace(text[i])
    THEN text[CHOOSE i \in 1..Len(text) :
                  ~IsSpace(text[i]) /\ \A j \in 1..(i - 1) : IsSpace(text[j])]
    ELSE "none"

C7_NdjsonAllOrNothing ==
    ( /\ pc # "parse"
      /\ FirstToken(data) # "["
      /\ \E i \in 1..Len(TextLines(data)) : Undecodable(TextLines(data)[i]) )
    => (err # "nil" /\ docs = <<>> /\ pc = "loop" /\ calls = <<>>)

\* A bad line after a good one: an error and no record.
C7_Witness ==
    /\ pc # "parse"
    /\ Len(TextLines(data)) >= 2
    /\ ~TooLong(data)
    /\ ~Undecodable(TextLines(data)[1]) /\ NonBlank(TextLines(data)[1])
    /\ Undecodable(TextLines(data)[Len(TextLines(data))])
    /\ err = "line" /\ docs = <<>>

\* C8: on success the records are, in order, the elements of the array (for
\* content starting with "["), or else the decodings of the non-blank lines,
\* one record per line, blank lines giving none.
ObjectsOf(text) == SelectSeq(text, IsObject)

\* The text up to its first "]".
UpToClose(text) ==
    IF "]" \in Range(text)
    THEN SubSeq(text, 1, (CHOOSE k \in 1..Len(text) :
                              text[k] = "]" /\ \A j \in 1..(k - 1) : text[j] # "]") - 1)
    ELSE text

C8_RecordsInSourceOrder ==
    (pc # "parse" /\ err = "nil") =>
        IF FirstToken(data) = "["
        THEN docs = ObjectsOf(UpToClose(data))
        ELSE LET lines == SelectSeq(TextLines(data), NonBlank)
             IN /\ Len(docs) = Len(lines)
                /\ \A i \in 1..Len(lines) :
                      /\ ~UnmarshalExtJSONObject(lines[i], lenient).err
                      /\ docs[i] = UnmarshalExtJSONObject(lines[i], lenient).val

\* Two different records on two lines with a blank line between them.
C8_Witness ==
    /\ pc # "parse" /\ err = "nil"
    /\ FirstToken(data) # "["
    /\ Len(docs) = 2 /\ docs[1] # docs[2]
    /\ \E i \in 1..Len(TextLines(data)) : ~NonBlank(TextLines(data)[i])

\* C9 as claimed: a file with a valid name whose content parses to no record
\* has its DeleteMany and then its InsertMany (of an empty list) issued, and
\* the collection's earlier documents are gone.
ZeroRecordFileDone ==
    /\ Returned
    /\ coll # <<>>
    /\ err # "read"
    /\ Parsed(LastFile).err = "nil"
    /\ Parsed(LastFile).docs = <<>>

IssuedFor(i, op) == \E k \in CallsOf(i) : calls[k].op = op /\ calls[k].coll = coll

C9_EmptyFileClearsCollection ==
    ZeroRecordFileDone =>
        /\ IssuedFor(LastFile, "DeleteMany")
        /\ \E k \in CallsOf(LastFile) : calls[k].op = "InsertMany" /\ calls[k].docs = <<>>
        /\ Contents(db, coll) = <<>>

\* C9 as amended: the DeleteMany is issued; when it succeeds, the InsertMany
\* of an empty list follows and the collection is left empty.
C9_EmptyFileClearsWhenDeleteSucceeds ==
    ZeroRecordFileDone =>
        /\ IssuedFor(LastFile, "DeleteMany")
        /\ (\E k \in CallsOf(LastFile) : calls[k].op = "DeleteMany" /\ calls[k].ok) =>
              /\ \E k \in CallsOf(LastFile) :
                    /\ calls[k].op = "InsertMany"
                    /\ calls[k].docs = <<>>
                    /\ calls[k].coll = coll
              /\ Contents(db, coll) = <<>>

\* An empty file emptied a collection that held documents.
C9_Witness ==
    /\ ZeroRecordFileDone
    /\ Contents(db0, coll) # <<>>
    /\ \A k \in 1..Len(calls) : calls[k].file = LastFile
    /\ \E k \in CallsOf(LastFile) : calls[k].op = "InsertMany" /\ calls[k].docs = <<>>
    /\ Contents(db, coll) = <<>>

\* C10: at the end of a run, a collection named by several files that all
\* imported successfully holds exactly the records of the last of them; a
\* collection named by no resolved file has had no call and holds what it
\* held before the run.
FilesFor(c) == {i \in 1..Len(files) : extractCollectionName(files[i]) = c}

Imported(i) == \E k \in CallsOf(i) : calls[k].op = "InsertMany" /\ calls[k].ok

LastOf(S) == CHOOSE i \in S : \A j \in S : j <= i

C10_LastWriterWins ==
    /\ \A c \in Collections :
          ( /\ pc = "exited" /\ exitCode = 0
            /\ c # <<>>
            /\ Cardinality(FilesFor(c)) >= 2
            /\ \A i \in FilesFor(c) : Imported(i) )
          => Contents(db, c) = Parsed(LastOf(FilesFor(c))).docs
    /\ \A c \in Collections :
          (FilesFor(c) = {} \/ c = <<>>) =>
              /\ \A k \in 1..Len(calls) : calls[k].coll # c
              /\ Contents(db, c) = Contents(db0, c)

\* Two files imported different records into one collection, and a third
\* collection was left alone.
C10_Witness ==
    /\ pc = "exited" /\ exitCode = 0
    /\ Len(files) = 2
    /\ FilesFor(CollU) = {1, 2}
    /\ Imported(1) /\ Imported(2)
    /\ Parsed(1).docs # Parsed(2).docs
    /\ Contents(db, CollU) = Parsed(2).docs
    /\ Contents(db, CollZ) = Contents(db0, CollZ) /\ Contents(db0, CollZ) # <<>>

====
